---------------------------- MODULE Spec2Model ----------------------------
(***************************************************************************)
(* Model of shogi_usi_parser/src/hand.rs: the parser of the "hand" segment *)
(* of a USI position, <[Hand; 2] as FromUsi>::parse_usi_slice, and its C   *)
(* interface Hand_parse_usi_slice.                                         *)
(*                                                                         *)
(* Bytes are integers 0..255.  A Hand is a function from piece kinds to    *)
(* counts, a hand pair is <<black, white>>.  The parser runs as a state    *)
(* machine whose program counter pc walks through the function (one step   *)
(* per iteration of the token loop); ParseUsiSlice is the same code as an  *)
(* operator on a byte sequence.  A slice index out of range is a panic.    *)
(***************************************************************************)
EXTENDS Integers, Sequences, FiniteSets, TLC

(***************************************************************************)
(* Bounds of the model.                                                    *)
(***************************************************************************)
\* longest input of the safe parser; the C buffers have up to MaxLen + 1 bytes
MaxLen == 4

(***************************************************************************)
(* Byte values.                                                            *)
(***************************************************************************)
NUL == 0
MINUS == 45
ZERO == 48
NINE == 57

\* the byte values the inputs are drawn from:
\* nul, '-', '0', '1', '9', 'P', 'b', 'p', 'x'
Bytes == {0, 45, 48, 49, 57, 80, 98, 112, 120}

(***************************************************************************)
(* shogi_core: piece kinds that a Hand holds, their maxima, Hand::default  *)
(* and Hand::added; the one-byte piece decoder Piece::parse_usi_slice.     *)
(***************************************************************************)
PieceKinds == {"Pawn", "Lance", "Knight", "Silver", "Gold", "Bishop", "Rook"}

MaxCount ==
  [k \in PieceKinds |->
     CASE k = "Pawn" -> 18
       [] k \in {"Lance", "Knight", "Silver", "Gold"} -> 4
       [] OTHER -> 2]

HandDefault == [k \in PieceKinds |-> 0]

\* Hand::added: Some(the hand with one more piece of the kind), or None when
\* the kind is at its maximum
Added(h, kind) ==
  IF h[kind] < MaxCount[kind]
  THEN [some |-> TRUE, hand |-> [h EXCEPT ![kind] = @ + 1]]
  ELSE [some |-> FALSE, hand |-> h]

NoPiece == [kind |-> "None", color |-> "None"]

\* Piece::parse_usi_slice on a one-byte slice: an unpromoted piece letter,
\* upper case for black and lower case for white
ParsePiece(b) ==
  CASE b = 80  -> [kind |-> "Pawn",   color |-> "Black"]
    [] b = 76  -> [kind |-> "Lance",  color |-> "Black"]
    [] b = 78  -> [kind |-> "Knight", color |-> "Black"]
    [] b = 83  -> [kind |-> "Silver", color |-> "Black"]
    [] b = 71  -> [kind |-> "Gold",   color |-> "Black"]
    [] b = 66  -> [kind |-> "Bishop", color |-> "Black"]
    [] b = 82  -> [kind |-> "Rook",   color |-> "Black"]
    [] b = 112 -> [kind |-> "Pawn",   color |-> "White"]
    [] b = 108 -> [kind |-> "Lance",  color |-> "White"]
    [] b = 110 -> [kind |-> "Knight", color |-> "White"]
    [] b = 115 -> [kind |-> "Silver", color |-> "White"]
    [] b = 103 -> [kind |-> "Gold",   color |-> "White"]
    [] b = 98  -> [kind |-> "Bishop", color |-> "White"]
    [] b = 114 -> [kind |-> "Rook",   color |-> "White"]
    [] OTHER   -> NoPiece

(***************************************************************************)
(* parse_usi_slice, hand.rs lines 33-102.                                  *)
(***************************************************************************)
IsDigit(b) == ZERO <= b /\ b <= NINE

\* s[i] with i counted from 0, as in the source
At(s, i) == s[i + 1]

\* &s[from..]
SliceFrom(s, from) == SubSeq(s, from + 1, Len(s))

Err(from, to) == [tag |-> "Err", from |-> from, to |-> to]

Ok(ptr, rest, hand) == [tag |-> "Ok", ptr |-> ptr, rest |-> rest, hand |-> hand]

Panic == [tag |-> "Panic"]

\* lines 51-63: the count prefix at index: its value and its length
CountPrefix(s, index) ==
  IF IsDigit(At(s, index))
  THEN LET this == At(s, index) - ZERO
       IN  IF index + 1 < Len(s) /\ IsDigit(At(s, index + 1))
           THEN [count |-> (10 * this + (At(s, index + 1) - ZERO)) % 256,
                 count_len |-> 2]
           ELSE [count |-> this, count_len |-> 1]
  ELSE [count |-> 1, count_len |-> 0]

\* a loop that adds one piece whatever the count is
AddCountOnce(h, kind, count) ==
  IF count = 0 THEN h
  ELSE LET newhand == Added(h, kind)
       IN  IF newhand.some THEN newhand.hand ELSE h

\* lines 73-79 and 82-88: add the kind count times, stop at the first failure
RECURSIVE AddCount(_, _, _)
AddCount(h, kind, count) ==
  IF count = 0 THEN h
  ELSE LET newhand == Added(h, kind)
       IN  IF newhand.some THEN AddCount(newhand.hand, kind, count - 1) ELSE h

\* lines 71-90: the hand of the piece's colour receives the pieces
AddToHands(hand, piece, count) ==
  IF piece.color = "Black"
  THEN <<AddCount(hand[1], piece.kind, count), hand[2]>>
  ELSE <<hand[1], AddCount(hand[2], piece.kind, count)>>

\* an index that skips one byte more than the token
NextIndexSkips(index, count_len) == index + count_len + 2

\* line 91
NextIndex(index, count_len) == index + count_len + 1

\* a loop body that keeps the digits of a failed attempt as consumed
LoopBodyEatsDigits(s, index, hand) ==
  LET cp == CountPrefix(s, index)
      at == index + cp.count_len
  IN  IF at + 1 > Len(s)
      THEN [kind |-> "panic", index |-> index, hand |-> hand]
      ELSE LET piece == ParsePiece(At(s, at))
           IN  IF piece = NoPiece
               THEN [kind |-> "break", index |-> at, hand |-> hand]
               ELSE [kind |-> "next",
                     index |-> NextIndex(index, cp.count_len),
                     hand |-> AddToHands(hand, piece, cp.count)]

\* a loop body whose break at a full kind leaves the token loop as well
LoopBodyOverflowBreaks(s, index, hand) ==
  LET cp == CountPrefix(s, index)
      at == index + cp.count_len
  IN  IF at + 1 > Len(s)
      THEN [kind |-> "panic", index |-> index, hand |-> hand]
      ELSE LET piece == ParsePiece(At(s, at))
               c == IF piece.color = "Black" THEN 1 ELSE 2
           IN  IF piece = NoPiece
               THEN [kind |-> "break", index |-> index, hand |-> hand]
               ELSE IF hand[c][piece.kind] + cp.count > MaxCount[piece.kind]
               THEN [kind |-> "break", index |-> index,
                     hand |-> AddToHands(hand, piece, cp.count)]
               ELSE [kind |-> "next",
                     index |-> NextIndex(index, cp.count_len),
                     hand |-> AddToHands(hand, piece, cp.count)]

\* lines 51-91: the body of the token loop at index < s.len()
LoopBody(s, index, hand) ==
  LET cp == CountPrefix(s, index)
      at == index + cp.count_len
  IN  IF at + 1 > Len(s)
      THEN [kind |-> "panic", index |-> index, hand |-> hand]
      ELSE LET piece == ParsePiece(At(s, at))
           IN  IF piece = NoPiece
               THEN [kind |-> "break", index |-> index, hand |-> hand]
               ELSE [kind |-> "next",
                     index |-> NextIndex(index, cp.count_len),
                     hand |-> AddToHands(hand, piece, cp.count)]

\* lines 93-101
LoopEnd(s, index, hand) ==
  IF index = 0 THEN Err(0, 1) ELSE Ok(index, SliceFrom(s, index), hand)

\* a remainder that still holds the marker
AfterMarkerWhole(s) == SliceFrom(s, 0)

\* line 43: the remainder after the empty-hand marker
AfterMarker(s) == SliceFrom(s, 1)

\* lines 34-44: the results that need no loop, "Loop" otherwise
Entry(s) ==
  IF Len(s) = 0 THEN Err(0, 0)
  ELSE IF At(s, 0) = MINUS
       THEN Ok(1, AfterMarker(s), <<HandDefault, HandDefault>>)
       ELSE [tag |-> "Loop"]

RECURSIVE ParseLoop(_, _, _)
ParseLoop(s, index, hand) ==
  IF index < Len(s)
  THEN LET r == LoopBody(s, index, hand)
       IN  CASE r.kind = "panic" -> Panic
             [] r.kind = "break" -> LoopEnd(s, index, hand)
             [] OTHER -> ParseLoop(s, r.index, r.hand)
  ELSE LoopEnd(s, index, hand)

\* the whole function on a byte sequence
ParseUsiSlice(s) ==
  LET e == Entry(s)
  IN  IF e.tag = "Loop" THEN ParseLoop(s, 0, <<HandDefault, HandDefault>>) ELSE e

(***************************************************************************)
(* Hand_parse_usi_slice, hand.rs lines 113-126.                            *)
(***************************************************************************)
\* line 122: slice.as_ptr().offset_from(s)
OffsetFrom(ptr, base) == ptr - base

\* a return of the number of bytes left instead of the number of bytes read
FfiReturnRemaining(res) == IF res.tag = "Ok" THEN Len(res.rest) ELSE -1

\* lines 119-125: the returned value
FfiReturn(res) == IF res.tag = "Ok" THEN OffsetFrom(res.ptr, 0) ELSE -1

\* an output buffer that is cleared when the parse fails
FfiOutCleared(before, res) ==
  IF res.tag = "Ok" THEN res.hand ELSE <<HandDefault, HandDefault>>

\* lines 119-125: the content of the output buffer after the call
FfiOut(before, res) == IF res.tag = "Ok" THEN res.hand ELSE before

(***************************************************************************)
(* The state machine.                                                      *)
(***************************************************************************)
VARIABLES
  mode,        \* "safe": parse_usi_slice is called; "ffi": Hand_parse_usi_slice
  mem,         \* ffi: the bytes at the pointer s, up to the end of the buffer
  length,      \* ffi: the local variable of the nul scan
  out,         \* ffi: the content of *hand
  out_before,  \* ffi: the content of *hand when the call was made
  ret,         \* ffi: the returned isize, "none" before the return
  s,           \* the slice given to parse_usi_slice
  index,       \* local variable of parse_usi_slice
  hand,        \* local variable of parse_usi_slice
  iters,       \* number of iterations of the token loop so far
  result,      \* what parse_usi_slice returned
  pc           \* position in the code

vars == <<mode, mem, length, out, out_before, ret, s, index, hand, iters,
          result, pc>>

RECURSIVE SeqsOfLen(_, _)
SeqsOfLen(S, n) ==
  IF n = 0 THEN {<<>>}
  ELSE {Append(q, b) : q \in SeqsOfLen(S, n - 1), b \in S}

SeqsUpTo(S, n) == UNION {SeqsOfLen(S, k) : k \in 0..n}

\* any byte sequence of at most MaxLen bytes
Inputs == SeqsUpTo(Bytes, MaxLen)

\* the buffers behind a pointer to a nul-terminated string: the last byte is nul
Buffers == {Append(q, NUL) : q \in Inputs}

\* contents of the caller's Hand[2] before the call
SomeHands ==
  {<<HandDefault, HandDefault>>,
   <<[HandDefault EXCEPT !["Pawn"] = 3], [HandDefault EXCEPT !["Rook"] = 1]>>}

EmptyPair == <<HandDefault, HandDefault>>

InitSafe ==
  /\ mode = "safe"
  /\ s \in Inputs
  /\ mem = <<>>
  /\ out = EmptyPair
  /\ out_before = EmptyPair
  /\ pc = "entry"

InitFfi ==
  /\ mode = "ffi"
  /\ mem \in Buffers
  /\ s = <<>>
  /\ out \in SomeHands
  /\ out_before = out
  /\ pc = "scan"

Init ==
  /\ InitSafe \/ InitFfi
  /\ length = 0
  /\ ret = "none"
  /\ index = 0
  /\ hand = EmptyPair
  /\ iters = 0
  /\ result = [tag |-> "None"]

\* parse_usi_slice returns res to its caller
Return(res) ==
  /\ result' = res
  /\ pc' = IF res.tag = "Panic" THEN "panic"
           ELSE IF mode = "safe" THEN "done" ELSE "match"

\* lines 114-118: one test of the nul scan; the slice is made when nul is found
ScanNul ==
  /\ pc = "scan"
  /\ IF At(mem, length) # NUL
     THEN /\ length' = length + 1
          /\ UNCHANGED <<s, pc>>
     ELSE /\ s' = SubSeq(mem, 1, length)
          /\ pc' = "entry"
          /\ UNCHANGED length
  /\ UNCHANGED <<mode, mem, out, out_before, ret, index, hand, iters, result>>

\* lines 34-49
ParseEntry ==
  /\ pc = "entry"
  /\ LET e == Entry(s)
     IN  IF e.tag = "Loop"
         THEN /\ pc' = "loop"
              /\ UNCHANGED result
         ELSE Return(e)
  /\ index' = 0
  /\ hand' = EmptyPair
  /\ UNCHANGED <<mode, mem, length, out, out_before, ret, s, iters>>

\* lines 50-92: the loop test and one iteration
LoopStep ==
  /\ pc = "loop"
  /\ IF index < Len(s)
     THEN LET r == LoopBody(s, index, hand)
          IN  /\ iters' = iters + 1
              /\ index' = r.index
              /\ hand' = r.hand
              /\ CASE r.kind = "panic" -> Return(Panic)
                   [] r.kind = "break" -> pc' = "exit" /\ UNCHANGED result
                   [] OTHER -> pc' = "loop" /\ UNCHANGED result
     ELSE /\ pc' = "exit"
          /\ UNCHANGED <<index, hand, iters, result>>
  /\ UNCHANGED <<mode, mem, length, out, out_before, ret, s>>

\* lines 93-101
ParseExit ==
  /\ pc = "exit"
  /\ Return(LoopEnd(s, index, hand))
  /\ UNCHANGED <<mode, mem, length, out, out_before, ret, s, index, hand, iters>>

\* lines 119-125
FfiMatch ==
  /\ pc = "match"
  /\ out' = FfiOut(out, result)
  /\ ret' = FfiReturn(result)
  /\ pc' = "done"
  /\ UNCHANGED <<mode, mem, length, out_before, s, index, hand, iters, result>>

Next == ScanNul \/ ParseEntry \/ LoopStep \/ ParseExit \/ FfiMatch

Spec == Init /\ [][Next]_vars

(***************************************************************************)
(* The notation of hands, stated on its own: a token is zero, one or two   *)
(* ASCII digits followed by one piece letter.                              *)
(***************************************************************************)
IsLetter(b) == ParsePiece(b) # NoPiece

\* length of the token that q starts with, 0 when q starts with no token
TokenLen(q) ==
  IF Len(q) >= 1 /\ IsLetter(q[1]) THEN 1
  ELSE IF Len(q) >= 2 /\ IsDigit(q[1]) /\ IsLetter(q[2]) THEN 2
  ELSE IF Len(q) >= 3 /\ IsDigit(q[1]) /\ IsDigit(q[2]) /\ IsLetter(q[3]) THEN 3
  ELSE 0

\* the tokens of the longest prefix of q that is a concatenation of tokens
RECURSIVE Tokens(_)
Tokens(q) ==
  LET n == TokenLen(q)
  IN  IF n = 0 THEN <<>>
      ELSE <<SubSeq(q, 1, n)>> \o Tokens(SubSeq(q, n + 1, Len(q)))

RECURSIVE Flatten(_)
Flatten(ts) == IF ts = <<>> THEN <<>> ELSE Head(ts) \o Flatten(Tail(ts))

IsTokenString(q) == Len(Flatten(Tokens(q))) = Len(q)

TokenCount(t) ==
  CASE Len(t) = 1 -> 1
    [] Len(t) = 2 -> t[1] - 48
    [] OTHER -> 10 * (t[1] - 48) + (t[2] - 48)

TokenPiece(t) == ParsePiece(t[Len(t)])

\* the pieces of the colour and kind that the tokens ts announce
RECURSIVE TokenSum(_, _, _)
TokenSum(ts, color, kind) ==
  IF ts = <<>> THEN 0
  ELSE (IF TokenPiece(Head(ts)) = [kind |-> kind, color |-> color]
        THEN TokenCount(Head(ts)) ELSE 0)
       + TokenSum(Tail(ts), color, kind)

Min(a, b) == IF a < b THEN a ELSE b

Colors == <<"Black", "White">>

\* the call has ended, one way or another
Ended == pc \in {"done", "match", "panic"}

Returned == result.tag \in {"Ok", "Err"}

\* the bytes of a C string: those before its first nul
BeforeNul(m) ==
  LET z == CHOOSE i \in 1..Len(m) : m[i] = 0 /\ \A j \in 1..(i - 1) : m[j] # 0
  IN  SubSeq(m, 1, z - 1)

(***************************************************************************)
(* C1: parse_usi_slice is total: on every byte sequence the call ends in   *)
(* Ok or in Err(InvalidInput) and never aborts, also when a count prefix   *)
(* of one or two digits is the last thing in the input.                    *)
(***************************************************************************)
C1_Total == pc # "panic" /\ (Ended => Returned)

(***************************************************************************)
(* C2: on a successful parse of an input that does not start with '-', the *)
(* remainder is the suffix right after the last decoded token: the         *)
(* consumed prefix is a concatenation of tokens, the remainder starts with *)
(* no token, and the digits of a failed attempt stay in the remainder.     *)
(***************************************************************************)
C2_RemainderAfterLastToken ==
  (result.tag = "Ok" /\ s[1] # MINUS) =>
     LET n == Len(s) - Len(result.rest)
     IN  /\ n >= 1
         /\ result.rest = SubSeq(s, n + 1, Len(s))
         /\ IsTokenString(SubSeq(s, 1, n))
         /\ TokenLen(result.rest) = 0

C2_Witness ==
  /\ result.tag = "Ok"
  /\ s[1] # MINUS
  /\ Len(result.rest) >= 2
  /\ IsDigit(result.rest[1])
  /\ Len(s) - Len(result.rest) >= 1

(***************************************************************************)
(* C3: '-' is the only representation of an empty hand pair: a successful  *)
(* parse whose hands are both empty happens only when the first byte is    *)
(* '-'; tokens that add up to no piece are not accepted.                   *)
(***************************************************************************)
C3_OnlyMarkerGivesEmptyPair ==
  (result.tag = "Ok" /\ result.hand = EmptyPair) => s[1] = MINUS

(***************************************************************************)
(* C4: an input that is a non-empty concatenation of tokens is parsed with *)
(* success and an empty remainder, and every count is the sum of the       *)
(* counts of the tokens of that side and kind, capped at the kind's        *)
(* maximum; capping is neither an error nor an abort.                      *)
(***************************************************************************)
C4_CappedSums ==
  (Ended /\ s # <<>> /\ IsTokenString(s)) =>
     /\ result.tag = "Ok"
     /\ result.rest = <<>>
     /\ \A c \in 1..2 : \A k \in PieceKinds :
          result.hand[c][k] = Min(TokenSum(Tokens(s), Colors[c], k), MaxCount[k])

C4_Witness ==
  /\ Ended
  /\ IsTokenString(s)
  /\ result.tag = "Ok"
  /\ \E c \in 1..2 : \E k \in PieceKinds :
       /\ TokenSum(Tokens(s), Colors[c], k) > MaxCount[k]
       /\ result.hand[c][k] = MaxCount[k]
  /\ \E c \in 1..2 : \E k \in PieceKinds :
       /\ result.hand[c][k] > 0
       /\ result.hand[c][k] < MaxCount[k]

(***************************************************************************)
(* C5: the order of the tokens is irrelevant: the concatenation of any     *)
(* permutation of the tokens of an input gives the same hand pair and the  *)
(* same consumed length, also when a kind reaches its maximum.             *)
(***************************************************************************)
Permuted(ts, p) == [i \in 1..Len(ts) |-> ts[p[i]]]

C5_OrderIrrelevant ==
  (Ended /\ s # <<>> /\ IsTokenString(s)) =>
     \A p \in Permutations(1..Len(Tokens(s))) :
        LET r == ParseUsiSlice(Flatten(Permuted(Tokens(s), p)))
        IN  /\ result.tag = "Ok"
            /\ r.tag = "Ok"
            /\ r.hand = result.hand
            /\ r.ptr = result.ptr

C5_Witness ==
  /\ Ended
  /\ IsTokenString(s)
  /\ result.tag = "Ok"
  /\ \E p \in Permutations(1..Len(Tokens(s))) :
       Flatten(Permuted(Tokens(s), p)) # s
  /\ \E c \in 1..2 : \E k \in PieceKinds :
       TokenSum(Tokens(s), Colors[c], k) > MaxCount[k]

(***************************************************************************)
(* C6: parse_usi_slice fails in exactly two situations: the input is empty *)
(* (range 0..0), or it is not empty, does not start with '-' and no token  *)
(* is decoded at position 0 (range 0..1).  Every other input gives Ok with *)
(* at least one byte consumed.                                             *)
(***************************************************************************)
C6_ExactlyTwoFailures ==
  Ended =>
     IF s = <<>> THEN result = Err(0, 0)
     ELSE IF s[1] # MINUS /\ TokenLen(s) = 0 THEN result = Err(0, 1)
     ELSE result.tag = "Ok" /\ Len(s) - Len(result.rest) >= 1

(***************************************************************************)
(* C7: when the first byte is '-', the call returns at once Ok with the    *)
(* bytes after it as the remainder, unexamined, and two empty hands.       *)
(***************************************************************************)
C7_EmptyMarker ==
  (Ended /\ s # <<>> /\ s[1] = MINUS) =>
     /\ result.tag = "Ok"
     /\ result.rest = Tail(s)
     /\ result.ptr = 1
     /\ \A c \in 1..2 : \A k \in PieceKinds : result.hand[c][k] = 0
     /\ iters = 0

C7_Witness ==
  /\ Ended
  /\ result.tag = "Ok"
  /\ Len(s) >= 2
  /\ s[1] = MINUS
  /\ IsTokenString(Tail(s))

(***************************************************************************)
(* C8: Hand_parse_usi_slice agrees with parse_usi_slice on the bytes B     *)
(* before the first nul: it returns len(B) minus the length of the         *)
(* remainder when the parse succeeds, a value in 1..len(B), and -1 exactly *)
(* when the parse fails; the bytes from the first nul on do not matter.    *)
(***************************************************************************)
C8_WrapperAgrees ==
  (mode = "ffi" /\ pc = "done") =>
     LET B == BeforeNul(mem)
         r == ParseUsiSlice(B)
     IN  /\ r.tag = "Ok" => /\ ret = Len(B) - Len(r.rest)
                            /\ ret \in 1..Len(B)
         /\ (ret = -1) <=> (r.tag = "Err")

C8_Witness ==
  /\ mode = "ffi"
  /\ pc = "done"
  /\ ret \in 1..(Len(BeforeNul(mem)) - 1)
  /\ Len(mem) > Len(BeforeNul(mem)) + 2
  /\ IsLetter(mem[Len(BeforeNul(mem)) + 2])

(***************************************************************************)
(* C9: Hand_parse_usi_slice leaves the two Hands of the output buffer      *)
(* unchanged when it returns -1, and when it returns a count it overwrites *)
(* both with the pair that the parser produced.                            *)
(***************************************************************************)
C9_OutputFrame ==
  (mode = "ffi" /\ pc = "done") =>
     /\ ret = -1 => out = out_before
     /\ ret # -1 => ret >= 0 /\ out = ParseUsiSlice(BeforeNul(mem)).hand

C9_Witness ==
  /\ mode = "ffi"
  /\ pc = "done"
  /\ ret = -1
  /\ out_before # EmptyPair

(***************************************************************************)
(* C10: the token loop terminates: an iteration leaves the loop or         *)
(* advances the index by count_len + 1, a value in 1..3; the index stays   *)
(* within 0..len(input), so there are at most len(input) iterations and    *)
(* the remainder input[index..] is a suffix of the input.                  *)
(***************************************************************************)
C10_IndexInRange ==
  /\ 0 <= index
  /\ index <= Len(s)
  /\ iters <= Len(s)
  /\ pc = "loop" => iters <= index /\ index <= 3 * iters
  /\ result.tag = "Ok" => result.rest = SubSeq(s, result.ptr + 1, Len(s))

C10_Advance ==
  (pc = "loop" /\ pc' = "loop" /\ index < Len(s)) =>
     /\ index' = index + CountPrefix(s, index).count_len + 1
     /\ index' - index \in 1..3

C10_LoopTerminates ==
  /\ []C10_IndexInRange
  /\ [][C10_Advance]_vars

C10_Witness ==
  /\ pc = "exit"
  /\ iters = Len(s)
  /\ index = Len(s) - 1
  /\ iters >= 3

============================================================================
